---- MODULE Spec2Model ----
(***************************************************************************)
(* Model of the Jira server-to-cloud automation migrator (src/main.py).    *)
(*                                                                         *)
(* A Python string is modelled as a sequence of atoms.  An atom is a       *)
(* literal fragment of the text (a TLA+ string): the templates of main()   *)
(* are sequences of such fragments, identifiers are sequences of           *)
(* characters.  str.replace, the `in` test, re.finditer and slicing are    *)
(* modelled on these sequences as Python computes them.                    *)
(***************************************************************************)
EXTENDS Integers, Sequences, FiniteSets, TLC

VARIABLES
    pc,            \* position in main(), or in the harness of a single function
    env,           \* the precondition facts: mapping.xlsx, connection, JSON files
    wb,            \* the workbook mapping.xlsx: one sheet (rows of [A, B]) per kind
    cloud,         \* the destination system: kind -> query -> response
    input,         \* the rules of the selected input file
    answers,       \* what the user answered to select_file / confirm
    files,         \* the files the run has written (None: not written)
    mapping_data,  \* the Mapping Ledger
    hist,          \* ghost: the working text and the ledger length after each pass
    arg,           \* harness of a single function: its input
    ret            \* harness of a single function: its result

vars == <<pc, env, wb, cloud, input, answers, files, mapping_data, hist, arg, ret>>

-----------------------------------------------------------------------------
(* Python values *)

\* Python's None (no string of the model is this sequence).
None == <<"<None>">>

\* str(v): str(None) is the four letters None.
StrOf(v) == IF v = None THEN <<"None">> ELSE v

RECURSIVE LStrip(_)
LStrip(s) == IF s # <<>> /\ Head(s) = " " THEN LStrip(Tail(s)) ELSE s

RECURSIVE RStrip(_)
RStrip(s) == IF s # <<>> /\ s[Len(s)] = " " THEN RStrip(SubSeq(s, 1, Len(s) - 1)) ELSE s

\* str.strip()
Strip(s) == RStrip(LStrip(s))

\* truth value of a string-or-None
Truthy(v) == v # None /\ v # <<>>

\* a[i:j] of Python with 1-based i and inclusive j, clipped at the end of a
Slice(s, i, j) == SubSeq(s, i, IF j > Len(s) THEN Len(s) ELSE j)

\* s[i:].startswith(sub), i 1-based
MatchAt(s, sub, i) ==
    /\ i >= 1
    /\ i + Len(sub) - 1 <= Len(s)
    /\ \A k \in 1..Len(sub) : s[i + k - 1] = sub[k]

\* sub in s
Contains(s, sub) == \E i \in 1..(Len(s) + 1) : MatchAt(s, sub, i)

\* the non-overlapping matches, left to right, among the positions C where a
\* pattern of length len matches: a match starts where the previous one ended or later
RECURSIVE LeftToRight(_, _, _)
LeftToRight(C, len, from) ==
    LET rest == {i \in C : i >= from}
    IN  IF rest = {} THEN <<>>
        ELSE LET m == CHOOSE i \in rest : \A j \in rest : i <= j
             IN  <<m>> \o LeftToRight(C, len, m + len)

\* the start positions of the matches of re.finditer(sub, s) for a literal sub, in order
FindAll(s, sub) == LeftToRight({i \in 1..Len(s) : MatchAt(s, sub, i)}, Len(sub), 1)

RECURSIVE ReplaceAt(_, _, _, _, _)
ReplaceAt(s, starts, len, new, from) ==
    IF starts = <<>> THEN SubSeq(s, from, Len(s))
    ELSE SubSeq(s, from, Head(starts) - 1) \o new
         \o ReplaceAt(s, Tail(starts), len, new, Head(starts) + len)

\* s.replace(old, new): every non-overlapping occurrence, left to right (old is never empty here)
Replace(s, old, new) == ReplaceAt(s, FindAll(s, old), Len(old), new, 1)

-----------------------------------------------------------------------------
(* The workbook: a sheet is a sequence of rows [A, B]; row 1 is the header *)
(* generate-mappings.py writes.  A cell is a string or None.               *)

\* ws["A" + str(row)].value: a cell beyond the last row is empty
CellA(sheet, row) == IF row \in 1..Len(sheet) THEN sheet[row].A ELSE None
CellB(sheet, row) == IF row \in 1..Len(sheet) THEN sheet[row].B ELSE None

\* the B cell of the first row whose A cell satisfies the test, else None
FirstRowB(sheet, Test(_)) ==
    LET hits == {r \in 1..Len(sheet) : sheet[r].A # None /\ Test(sheet[r].A)}
    IN  IF hits = {} THEN None
        ELSE sheet[CHOOSE r \in hits : \A q \in hits : r <= q].B

getEmailforUserInExcel(username) ==
    LET Test(a) == username = Strip(StrOf(a))
    IN  FirstRowB(wb.users, Test)

getCustomFieldNameInExcel(cf_id) ==
    LET Test(a) == cf_id = <<"customfield_">> \o Strip(StrOf(a))
    IN  FirstRowB(wb.customFields, Test)

\* the sheet main() loads for a kind
SheetOf(kind) ==
    CASE kind = "user"        -> wb.users
      [] kind = "customfield" -> wb.customFields
      [] kind = "project"     -> wb.projects
      [] kind = "status"      -> wb.status
      [] kind = "priority"    -> wb.priority
      [] kind = "issuetype"   -> wb.issuetype

\* getStatusNameInExcel, getIssueTypeNameInExcel, getPriorityNameInExcel: the
\* same code on the sheet of the kind
getNameInExcel(kind, id) ==
    LET Test(a) == Strip(StrOf(a)) = Strip(StrOf(id))
    IN  FirstRowB(SheetOf(kind), Test)

getStatusNameInExcel(id) == getNameInExcel("status", id)
getIssueTypeNameInExcel(id) == getNameInExcel("issuetype", id)
getPriorityNameInExcel(id) == getNameInExcel("priority", id)

-----------------------------------------------------------------------------
(* The destination system and the Cloud Resolver.  A response is           *)
(* [fail, code, values]: fail = the request raised (no response), code =   *)
(* the HTTP status, values = the candidates [name, id] in the order the    *)
(* server returned them (name: the name, the project key, the e-mail).     *)

HTTP_OK == 200

\* the result of a call that raised
Raise == <<"<raised>">>

NoResults == [fail |-> FALSE, code |-> HTTP_OK, values |-> <<>>]

\* requests.get of the kind's endpoint.  /priority/search and /issuetype take
\* no query: they answer the same whatever the name.
CloudGet(kind, q) ==
    IF kind \in {"priority", "issuetype"} THEN cloud[kind]
    ELSE IF q \in DOMAIN cloud[kind] THEN cloud[kind][q]
    ELSE NoResults

\* for x in values: if x[name] == name: return x[id]; return None
FirstExactMatch(values, name) ==
    LET hits == {i \in 1..Len(values) : values[i].name = name}
    IN  IF hits = {} THEN None
        ELSE values[CHOOSE i \in hits : \A j \in hits : i <= j].id

ScanResponse(r, name) ==
    IF r.fail THEN Raise
    ELSE IF r.code # HTTP_OK THEN None
    ELSE FirstExactMatch(r.values, name)

getCustomFieldIdInCloud(name) == ScanResponse(CloudGet("customfield", name), name)

getStatusIdInCloud(name) ==
    IF ~Truthy(name) THEN None ELSE ScanResponse(CloudGet("status", name), name)

getPriorityIdInCloud(name) ==
    IF ~Truthy(name) THEN None ELSE ScanResponse(CloudGet("priority", name), name)

getIssueTypeIdInCloud(name) ==
    IF ~Truthy(name) THEN None ELSE ScanResponse(CloudGet("issuetype", name), name)

getProjectIdInCloud(projectKey) ==
    IF ~Truthy(projectKey) THEN None ELSE ScanResponse(CloudGet("project", projectKey), projectKey)

\* the first user of the answer, whatever its e-mail
FirstAccount(r) ==
    IF r.fail THEN Raise
    ELSE IF r.code # HTTP_OK THEN None
    ELSE IF Len(r.values) > 0 THEN r.values[1].id
    ELSE None

getAccountIdInCloud(email) ==
    IF ~Truthy(email) THEN None ELSE FirstAccount(CloudGet("user", email))

\* the resolver of a kind
Resolve(kind, name) ==
    CASE kind = "customfield" -> getCustomFieldIdInCloud(name)
      [] kind = "status"      -> getStatusIdInCloud(name)
      [] kind = "priority"    -> getPriorityIdInCloud(name)
      [] kind = "issuetype"   -> getIssueTypeIdInCloud(name)
      [] kind = "project"     -> getProjectIdInCloud(name)
      [] kind = "user"        -> getAccountIdInCloud(name)

Kinds == {"customfield", "status", "priority", "issuetype", "project", "user"}

-----------------------------------------------------------------------------
(* The literal fragments of the rule text *)

Q     == "\""                      \* a closing or opening quote
OB    == "{\""
TID   == "type\": \"ID\", "
TNAME == "type\": \"NAME\", "
VAL   == "\"value\": \""
CFP   == "customfield_"
LB    == "[\\\""                    \* [\"   opens an encoded id array
SEP   == "\\\",\\\""                \* \",\" between two ids of an encoded array
RB    == "\\\"]"                    \* \"]   closes an encoded id array
CV    == "\", \"compareValue\": "

\* selectedFieldType": "<kind>", "comparison": "
SFT(kind) ==
    CASE kind = "status"    -> "selectedFieldType\": \"status\", \"comparison\": \""
      [] kind = "issuetype" -> "selectedFieldType\": \"issuetype\", \"comparison\": \""
      [] kind = "priority"  -> "selectedFieldType\": \"priority\", \"comparison\": \""
      [] kind = "project"   -> "selectedFieldType\": \"project\", \"comparison\": \""

\* fieldType": "<kind>", "type": "SET", "value":
FT(kind) ==
    CASE kind = "priority"  -> "fieldType\": \"priority\", \"type\": \"SET\", \"value\": "
      [] kind = "issuetype" -> "fieldType\": \"issuetype\", \"type\": \"SET\", \"value\": "
      [] kind = "project"   -> "fieldType\": \"project\", \"type\": \"SET\", \"value\": "

\* the context templates main() passes to each pass
StatusTemplates ==
    << <<"destinationStatus\": ", OB, TID, VAL>>,
       <<"toStatus\": [", OB, TID, VAL>>,
       <<"fromStatus\": [", OB, TID, VAL>> >>

SetEqualsTemplates(kind) ==
    << <<FT(kind), OB, TID, VAL>>,
       <<SFT(kind), "EQUALS", CV, OB, TID, VAL>> >>

PriorityTemplates  == SetEqualsTemplates("priority")
IssueTypeTemplates == SetEqualsTemplates("issuetype")
ProjectTemplates   == SetEqualsTemplates("project") \o << <<"projectId\": \"">> >>

UserTemplates ==
    << <<"\"authorAccountId\": \"">>,
       <<"\"actorAccountId\": \"">>,
       <<OB, TID, VAL>> >>

TemplatesOf(kind) ==
    CASE kind = "status"    -> StatusTemplates
      [] kind = "priority"  -> PriorityTemplates
      [] kind = "issuetype" -> IssueTypeTemplates
      [] kind = "project"   -> ProjectTemplates
      [] kind = "user"      -> UserTemplates

-----------------------------------------------------------------------------
(* The passes.  A pass reads the working text, rewrites it in memory and   *)
(* writes it back at its end; it appends to the ledger as it goes.  The    *)
(* state of a pass is [data, led, raised]: raised = a lookup raised, the   *)
(* pass stopped there (its text is not written, its ledger rows stay).     *)

Entry(kind, name, server_id, cloud_id) ==
    [type |-> kind, name |-> name, server_id |-> server_id, cloud_id |-> cloud_id]

\* cell.value and str(cell.value).strip()
NonBlank(a) == Truthy(a) /\ Strip(StrOf(a)) # <<>>

\* for template in templates: if fromStr in data: data = data.replace(fromStr, toStr)
\* st = [data, any]: any = some template matched (any_replaced of replaceUsers)
RECURSIVE ApplyTemplatesSt(_, _, _, _)
ApplyTemplatesSt(st, templates, id, cloudId) ==
    IF templates = <<>> THEN st
    ELSE LET fromStr == Head(templates) \o id \o <<Q>>
             toStr   == Head(templates) \o cloudId \o <<Q>>
             next    == IF Contains(st.data, fromStr)
                        THEN [data |-> Replace(st.data, fromStr, toStr), any |-> TRUE]
                        ELSE st
         IN  ApplyTemplatesSt(next, Tail(templates), id, cloudId)

ApplyTemplates(data, templates, id, cloudId) ==
    ApplyTemplatesSt([data |-> data, any |-> FALSE], templates, id, cloudId).data

AnyReplaced(data, templates, id, cloudId) ==
    ApplyTemplatesSt([data |-> data, any |-> FALSE], templates, id, cloudId).any

\* row_index = 1; for cell in sheet['A']: row_index += 1; if cell.value and ...: rows.append(row_index)
RECURSIVE RowsToProcessFrom(_, _)
RowsToProcessFrom(sheet, r) ==
    IF r > Len(sheet) THEN <<>>
    ELSE (IF NonBlank(sheet[r].A) THEN <<r + 1>> ELSE <<>>) \o RowsToProcessFrom(sheet, r + 1)

RowsToProcess(sheet) == RowsToProcessFrom(sheet, 1)

\* the turn of the loop, were a name the cloud does not know to leave no ledger row
TemplateStep_NoNullRow(kind, sheet, templates, row, st) ==
    LET original_id == Strip(StrOf(CellA(sheet, row)))
        name        == CellB(sheet, row)
        cloudId     == Resolve(kind, name)
    IN  IF ~Truthy(name) THEN st
        ELSE IF cloudId = Raise THEN [st EXCEPT !.raised = TRUE]
        ELSE IF Truthy(cloudId) THEN
            [st EXCEPT !.data = ApplyTemplates(st.data, templates, original_id, cloudId),
                       !.led  = Append(st.led, Entry(kind, name, original_id, cloudId))]
        ELSE st

\* one turn of the loop of replaceStatus / replacePriority / replaceIssueType /
\* replaceProject: the row of the sheet, the lookup, the templates, the ledger
TemplateStep(kind, sheet, templates, row, st) ==
    LET original_id == Strip(StrOf(CellA(sheet, row)))
        name        == CellB(sheet, row)
        cloudId     == Resolve(kind, name)
    IN  IF ~Truthy(name) THEN st
        ELSE IF cloudId = Raise THEN [st EXCEPT !.raised = TRUE]
        ELSE IF Truthy(cloudId) THEN
            [st EXCEPT !.data = ApplyTemplates(st.data, templates, original_id, cloudId),
                       !.led  = Append(st.led, Entry(kind, name, original_id, cloudId))]
        ELSE [st EXCEPT !.led = Append(st.led, Entry(kind, name, original_id, None))]

RECURSIVE TemplateLoop(_, _, _, _, _)
TemplateLoop(kind, sheet, templates, rows, st) ==
    IF rows = <<>> \/ st.raised THEN st
    ELSE TemplateLoop(kind, sheet, templates, Tail(rows),
                      TemplateStep(kind, sheet, templates, Head(rows), st))

replaceByTemplates(kind, templates, data, led) ==
    TemplateLoop(kind, SheetOf(kind), templates, RowsToProcess(SheetOf(kind)),
                 [data |-> data, led |-> led, raised |-> FALSE])

replaceStatus(data, led)    == replaceByTemplates("status", StatusTemplates, data, led)
replacePriority(data, led)  == replaceByTemplates("priority", PriorityTemplates, data, led)
replaceIssueType(data, led) == replaceByTemplates("issuetype", IssueTypeTemplates, data, led)
replaceProject(data, led)   == replaceByTemplates("project", ProjectTemplates, data, led)

-----------------------------------------------------------------------------
(* replaceUsers and replaceJIRAUSERUsers *)

\* [str(val).strip() for cell in sheet['A'] if Keep(val)]
RECURSIVE SheetKeysFrom(_, _, _)
SheetKeysFrom(sheet, Keep(_), r) ==
    IF r > Len(sheet) THEN <<>>
    ELSE (IF Keep(sheet[r].A) THEN <<Strip(StrOf(sheet[r].A))>> ELSE <<>>)
         \o SheetKeysFrom(sheet, Keep, r + 1)

\* [u for u in users if u in data]
RECURSIVE KeysInText(_, _)
KeysInText(keys, data) ==
    IF keys = <<>> THEN <<>>
    ELSE (IF Contains(data, Head(keys)) THEN <<Head(keys)>> ELSE <<>>)
         \o KeysInText(Tail(keys), data)

\* the turn of the loop, were the ledger row of a found account not to wait for a match
UsersStep_AlwaysLedger(templates, user, st) ==
    LET userEmail == getEmailforUserInExcel(user)
        accountId == getAccountIdInCloud(userEmail)
    IN  IF ~Truthy(userEmail) THEN st
        ELSE IF accountId = Raise THEN [st EXCEPT !.raised = TRUE]
        ELSE IF Truthy(accountId) THEN
            [st EXCEPT !.data = ApplyTemplates(st.data, templates, user, accountId),
                       !.led  = Append(st.led, Entry("user", userEmail, user, accountId))]
        ELSE [st EXCEPT !.led = Append(st.led, Entry("user", userEmail, user, None))]

\* one turn of the loop of replaceUsers
UsersStep(templates, user, st) ==
    LET userEmail == getEmailforUserInExcel(user)
        accountId == getAccountIdInCloud(userEmail)
    IN  IF ~Truthy(userEmail) THEN st
        ELSE IF accountId = Raise THEN [st EXCEPT !.raised = TRUE]
        ELSE IF Truthy(accountId) THEN
            IF AnyReplaced(st.data, templates, user, accountId)
            THEN [st EXCEPT !.data = ApplyTemplates(st.data, templates, user, accountId),
                            !.led  = Append(st.led, Entry("user", userEmail, user, accountId))]
            ELSE st
        ELSE [st EXCEPT !.led = Append(st.led, Entry("user", userEmail, user, None))]

RECURSIVE UsersLoop(_, _, _)
UsersLoop(templates, users, st) ==
    IF users = <<>> \/ st.raised THEN st
    ELSE UsersLoop(templates, Tail(users), UsersStep(templates, Head(users), st))

replaceUsers(templates, data, led) ==
    LET usersInSheet == SheetKeysFrom(wb.users, NonBlank, 1)
        usersInJson  == KeysInText(usersInSheet, data)
    IN  UsersLoop(templates, usersInJson, [data |-> data, led |-> led, raised |-> FALSE])

\* val and str(val).strip().startswith("JIRAUSER")
IsJiraUserKey(a) ==
    Truthy(a) /\ Strip(StrOf(a)) # <<>> /\ Head(Strip(StrOf(a))) = "JIRAUSER"

\* the turn of the loop, were a key without e-mail not skipped
JiraUsersStep_NoEmailGuard(user, st) ==
    LET userEmail == getEmailforUserInExcel(user)
        accountId == getAccountIdInCloud(userEmail)
        fromStr   == user \o <<Q>>
        toStr     == accountId \o <<Q>>
        asked     == [st EXCEPT !.asked = Append(@, user)]
    IN  IF accountId = Raise THEN [asked EXCEPT !.raised = TRUE]
        ELSE IF Truthy(accountId) THEN
            [asked EXCEPT !.data = IF Contains(st.data, fromStr)
                                   THEN Replace(st.data, fromStr, toStr) ELSE st.data,
                          !.led  = Append(st.led, Entry("user", userEmail, user, accountId))]
        ELSE [asked EXCEPT !.led = Append(st.led, Entry("user", userEmail, user, None))]

\* one turn of the loop of replaceJIRAUSERUsers; st.asked holds the keys for
\* which getAccountIdInCloud was called
JiraUsersStep(user, st) ==
    LET userEmail == getEmailforUserInExcel(user)
        accountId == getAccountIdInCloud(userEmail)
        fromStr   == user \o <<Q>>
        toStr     == accountId \o <<Q>>
        asked     == [st EXCEPT !.asked = Append(@, user)]
    IN  IF ~Truthy(userEmail) THEN st
        ELSE IF accountId = Raise THEN [asked EXCEPT !.raised = TRUE]
        ELSE IF Truthy(accountId) THEN
            [asked EXCEPT !.data = IF Contains(st.data, fromStr)
                                   THEN Replace(st.data, fromStr, toStr) ELSE st.data,
                          !.led  = Append(st.led, Entry("user", userEmail, user, accountId))]
        ELSE [asked EXCEPT !.led = Append(st.led, Entry("user", userEmail, user, None))]

RECURSIVE JiraUsersLoop(_, _)
JiraUsersLoop(users, st) ==
    IF users = <<>> \/ st.raised THEN st
    ELSE JiraUsersLoop(Tail(users), JiraUsersStep(Head(users), st))

replaceJIRAUSERUsers(data, led) ==
    LET jiraUsersInSheet == SheetKeysFrom(wb.users, IsJiraUserKey, 1)
        usersInJson      == KeysInText(jiraUsersInSheet, data)
    IN  JiraUsersLoop(usersInJson,
                      [data |-> data, led |-> led, raised |-> FALSE, asked |-> <<>>])

-----------------------------------------------------------------------------
(* replaceFixedFields and replaceCustomFields *)

\* one turn of the loop of replaceFixedFields
FixedStep(cf_id, data) ==
    LET old_str  == <<TID, VAL, CFP>> \o cf_id
        new_name == getCustomFieldNameInExcel(<<CFP>> \o cf_id)
    IN  IF Truthy(new_name) /\ Contains(data, old_str)
        THEN Replace(data, old_str, <<TNAME, VAL>> \o new_name)
        ELSE data

RECURSIVE FixedLoop(_, _)
FixedLoop(cfs, data) ==
    IF cfs = <<>> THEN data ELSE FixedLoop(Tail(cfs), FixedStep(Head(cfs), data))

CRT == "Customer Request Type"

replaceFixedFields(data) ==
    LET cfsInSheet == SheetKeysFrom(wb.customFields, NonBlank, 1)
        fixed      == FixedLoop(cfsInSheet, data)
    IN  IF Contains(fixed, <<CRT>>) THEN Replace(fixed, <<CRT>>, <<"Request Type">>) ELSE fixed

\* the width of the numeric suffix read after customfield_
SuffixLen == 5

\* one turn of the loop of replaceCustomFields: start is the offset the match had
\* in the text as it was read, the slice is taken from the text as it is now
CustomFieldStep(start, st) ==
    LET oldId  == Slice(st.data, start, start + SuffixLen)
        cfName == getCustomFieldNameInExcel(oldId)
        newId  == getCustomFieldIdInCloud(cfName)
    IN  IF ~Truthy(cfName) THEN st
        ELSE IF newId = Raise THEN [st EXCEPT !.raised = TRUE]
        ELSE IF Truthy(newId) THEN
            [st EXCEPT !.data = Replace(st.data, oldId, newId),
                       !.led  = Append(st.led, Entry("customfield", cfName, oldId, newId))]
        ELSE [st EXCEPT !.led = Append(st.led, Entry("customfield", cfName, oldId, None))]

RECURSIVE CustomFieldLoop(_, _)
CustomFieldLoop(occurrences, st) ==
    IF occurrences = <<>> \/ st.raised THEN st
    ELSE CustomFieldLoop(Tail(occurrences), CustomFieldStep(Head(occurrences), st))

replaceCustomFields(data, led) ==
    CustomFieldLoop(FindAll(data, <<CFP>>), [data |-> data, led |-> led, raised |-> FALSE])

-----------------------------------------------------------------------------
(* replaceOneOfCondition *)

\* the regex of a comparison: "selectedFieldType": "<kind>", "comparison": "<cmp>",
\* "compareValue": {"type": "ID", "value": "(\[.*?\])"
OneOfPrefix(fieldType, cmp) == <<Q, SFT(fieldType), cmp, CV, OB, TID, VAL>>

\* the fragments that begin with [ and those that end with ]
OpensArray(a)  == a \in {LB, "[]"}
ClosesArray(a) == a \in {RB, "[]"}

\* (\[.*?\])" from position i: the end of the shortest run that closes with ] and a quote
GroupEnd(data, i) ==
    LET ends == {j \in i..(Len(data) - 1) : ClosesArray(data[j]) /\ data[j + 1] = Q}
    IN  IF i > Len(data) \/ ~OpensArray(data[i]) \/ ends = {} THEN 0
        ELSE CHOOSE j \in ends : \A k \in ends : j <= k

\* [m.group(1) for m in re.finditer(pattern, data)]: starts = where the prefix matches
RECURSIVE GroupsAt(_, _, _, _)
GroupsAt(data, starts, plen, from) ==
    IF starts = <<>> THEN <<>>
    ELSE LET i == Head(starts)
             e == GroupEnd(data, i + plen)
         IN  IF i >= from /\ e # 0
             THEN <<SubSeq(data, i + plen, e)>> \o GroupsAt(data, Tail(starts), plen, e + 2)
             ELSE GroupsAt(data, Tail(starts), plen, from)

FindGroups(data, prefix) == GroupsAt(data, FindAll(data, prefix), Len(prefix), 1)

\* s.split(sep) for a one-fragment separator
RECURSIVE SplitOn(_, _, _)
SplitOn(s, sep, cur) ==
    IF s = <<>> THEN <<cur>>
    ELSE IF Head(s) = sep THEN <<cur>> \o SplitOn(Tail(s), sep, <<>>)
    ELSE SplitOn(Tail(s), sep, Append(cur, Head(s)))

\* json.loads of the un-escaped group: [] is the empty list, [\"\"] is [""]
DecodeArray(group) ==
    IF group = <<"[]">> THEN <<>>
    ELSE SplitOn(SubSeq(group, 2, Len(group) - 1), SEP, <<>>)

\* "\",\"".join(ids)
RECURSIVE Join(_)
Join(ids) ==
    IF ids = <<>> THEN <<>>
    ELSE IF Len(ids) = 1 THEN Head(ids)
    ELSE Head(ids) \o <<SEP>> \o Join(Tail(ids))

\* "value": "[\"<ids>\"]"
EncodeValue(ids) == <<VAL, LB>> \o Join(ids) \o <<RB, Q>>

\* the turn for an id, were a row appended only for an id the cloud knows
OneOfIdStep_OnlyResolved(fieldType, id, st) ==
    LET old_id == Strip(id)
        name   == getNameInExcel(fieldType, old_id)
        new_id == IF Truthy(name) THEN Resolve(fieldType, name) ELSE None
    IN  IF old_id = <<>> THEN st
        ELSE IF new_id = Raise THEN [st EXCEPT !.raised = TRUE]
        ELSE [st EXCEPT
                !.led = IF Truthy(new_id)
                        THEN Append(st.led, Entry(fieldType, name, old_id, new_id))
                        ELSE st.led,
                !.new_ids = IF Truthy(new_id) THEN Append(st.new_ids, new_id)
                            ELSE st.new_ids]

\* the turn for an id, were an equal row already in the ledger taken out of it
OneOfIdStep_Dedup(fieldType, id, st) ==
    LET old_id == Strip(id)
        name   == getNameInExcel(fieldType, old_id)
        new_id == IF Truthy(name) THEN Resolve(fieldType, name) ELSE None
        row    == Entry(fieldType, name, old_id, new_id)
    IN  IF old_id = <<>> THEN st
        ELSE IF new_id = Raise THEN [st EXCEPT !.raised = TRUE]
        ELSE [st EXCEPT
                !.led = IF Truthy(name) \/ Truthy(new_id)
                        THEN Append(SelectSeq(st.led, LAMBDA r : r # row), row)
                        ELSE st.led,
                !.new_ids = IF Truthy(new_id) THEN Append(st.new_ids, new_id)
                            ELSE st.new_ids]

\* one turn of for old_id in id_list: st = [led, new_ids, raised]
OneOfIdStep(fieldType, id, st) ==
    LET old_id == Strip(id)
        name   == getNameInExcel(fieldType, old_id)
        new_id == IF Truthy(name) THEN Resolve(fieldType, name) ELSE None
    IN  IF old_id = <<>> THEN st
        ELSE IF new_id = Raise THEN [st EXCEPT !.raised = TRUE]
        ELSE [st EXCEPT
                !.led = IF Truthy(name) \/ Truthy(new_id)
                        THEN Append(st.led, Entry(fieldType, name, old_id, new_id))
                        ELSE st.led,
                !.new_ids = IF Truthy(new_id) THEN Append(st.new_ids, new_id)
                            ELSE st.new_ids]

RECURSIVE OneOfIds(_, _, _)
OneOfIds(fieldType, id_list, st) ==
    IF id_list = <<>> \/ st.raised THEN st
    ELSE OneOfIds(fieldType, Tail(id_list), OneOfIdStep(fieldType, Head(id_list), st))

\* one turn of for match in matches: the array is rewritten wherever it stands
OneOfMatchStep(fieldType, group, st) ==
    LET id_list   == DecodeArray(group)
        ids       == OneOfIds(fieldType, id_list,
                              [led |-> st.led, new_ids |-> <<>>, raised |-> FALSE])
        old_value == EncodeValue(id_list)
        new_value == EncodeValue(ids.new_ids)
    IN  IF ids.raised THEN [st EXCEPT !.led = ids.led, !.raised = TRUE]
        ELSE [st EXCEPT
                !.led  = ids.led,
                !.data = IF Contains(st.data, old_value)
                         THEN Replace(st.data, old_value, new_value) ELSE st.data]

RECURSIVE OneOfMatches(_, _, _)
OneOfMatches(fieldType, groups, st) ==
    IF groups = <<>> \/ st.raised THEN st
    ELSE OneOfMatches(fieldType, Tail(groups), OneOfMatchStep(fieldType, Head(groups), st))

\* for pattern in patterns: matches = list(re.finditer(pattern, data))
RECURSIVE OneOfPatterns(_, _, _)
OneOfPatterns(fieldType, cmps, st) ==
    IF cmps = <<>> \/ st.raised THEN st
    ELSE OneOfPatterns(fieldType, Tail(cmps),
             OneOfMatches(fieldType, FindGroups(st.data, OneOfPrefix(fieldType, Head(cmps))), st))

replaceOneOfCondition(fieldType, data, led) ==
    OneOfPatterns(fieldType, <<"ONE_OF", "NOT_ONE_OF">>,
                  [data |-> data, led |-> led, raised |-> FALSE])

-----------------------------------------------------------------------------
(* The rule document.  A rule is [id, state, name, body]: id, state and    *)
(* name are one fragment each, body is the text of its components.         *)

HDR       == "{\"rules\": ["
TAIL      == "], \"cloud\": false}"
RULE_OPEN == "{\"id\": "
RULE_END  == "]}"

\* json.dump of one rule
RuleText(rule) ==
    <<RULE_OPEN, rule.id, ", \"state\": ", rule.state, ", \"name\": \"", rule.name,
      "\", \"components\": [">> \o rule.body \o <<RULE_END>>

RECURSIVE RulesText(_)
RulesText(rules) == IF rules = <<>> THEN <<>> ELSE RuleText(Head(rules)) \o RulesText(Tail(rules))

\* json.dump({"rules": rules, "cloud": False})
Serialize(rules) == <<HDR>> \o RulesText(rules) \o <<TAIL>>

\* the rule that starts at position i of the text and ends before position e
RuleAt(text, i, e) ==
    [id |-> text[i + 1], state |-> text[i + 3], name |-> text[i + 5],
     body |-> SubSeq(text, i + 7, e - 2)]

\* json.load(text)["rules"]
ParseRules(text) ==
    LET opens == FindAll(text, <<RULE_OPEN>>)
    IN  [k \in 1..Len(opens) |->
            RuleAt(text, opens[k], IF k < Len(opens) THEN opens[k + 1] ELSE Len(text))]

ENABLED_STATE == "\"ENABLED\""
DISABLED_STATE == "\"DISABLED\""

\* the filter, were it to drop only the rules that are DISABLED
EnabledRules_NotDisabled(rules) == SelectSeq(rules, LAMBDA r : r.state # DISABLED_STATE)

\* [rule for rule in automations if rule.get('state') == 'ENABLED']
RECURSIVE EnabledRules(_)
EnabledRules(rules) ==
    IF rules = <<>> THEN <<>>
    ELSE (IF Head(rules).state = ENABLED_STATE THEN <<Head(rules)>> ELSE <<>>)
         \o EnabledRules(Tail(rules))

\* my_list.get('rules', []): an input without the key has no rules
RulesOfInput(doc) == IF doc.has_rules THEN doc.rules ELSE <<>>

\* the backup, were it written from the filtered rules
removeDisabledBackup_Filtered(doc) == [has_rules |-> TRUE, rules |-> EnabledRules(RulesOfInput(doc))]

\* removeDisabled: what it writes to <file>-original-pretty.json and to the working file
removeDisabledBackup(doc) == doc
removeDisabledWorking(doc) == Serialize(EnabledRules(RulesOfInput(doc)))

\* formatJSON: the parsed working text, re-serialised with indentation
formatJSON(text) == [rules |-> ParseRules(text), cloud |-> FALSE]

\* str(i) for a position
IntText(i) == <<"0", "1", "2", "3", "4", "5", "6", "7", "8", "9">>[i + 1]

\* step 12 of main(): one file per rule of the working text
RECURSIVE SplitFrom(_, _)
SplitFrom(rules, i) ==
    IF i > Len(rules) THEN <<>>
    ELSE (IF rules[i].state # DISABLED_STATE
          THEN << [file |-> <<IntText(i), "-", rules[i].id, "-modified-for-cloud.json">>,
                   doc  |-> [rules |-> << [rules[i] EXCEPT !.name = <<IntText(i), " - ", rules[i].name>>] >>,
                             cloud |-> FALSE]] >>
          ELSE <<>>)
         \o SplitFrom(rules, i + 1)

\* the split, were the positions counted from 0
splitRules_ZeroBased(text) ==
    [i \in 1..Len(ParseRules(text)) |->
        [file |-> <<IntText(i - 1), "-", ParseRules(text)[i].id, "-modified-for-cloud.json">>,
         doc  |-> [rules |-> << [ParseRules(text)[i] EXCEPT
                                    !.name = <<IntText(i - 1), " - ", ParseRules(text)[i].name>>] >>,
                   cloud |-> FALSE]]]

splitRules(text) == SplitFrom(ParseRules(text), 1)

-----------------------------------------------------------------------------
(* generateMappingExcel: the rows below the header of mapping_result.xlsx  *)

\* not v or v == "None"
AbsentCell(v) == ~Truthy(v) \/ v = <<"None">>

RenderRow(entry) ==
    [type      |-> entry.type,
     name      |-> entry.name,
     server_id |-> StrOf(entry.server_id),
     cloud_id  |-> IF Truthy(entry.cloud_id) THEN StrOf(entry.cloud_id) ELSE None,
     missing   |-> IF entry.cloud_id = None THEN "YES" ELSE "NO"]

\* the report, were a row dropped as soon as its server id or its name is absent
generateMappingExcel_DropEither(ledger) ==
    LET kept == SelectSeq(ledger, LAMBDA e : ~(AbsentCell(e.server_id) \/ AbsentCell(e.name)))
    IN  [i \in 1..Len(kept) |-> RenderRow(kept[i])]

RECURSIVE generateMappingExcel(_)
generateMappingExcel(ledger) ==
    IF ledger = <<>> THEN <<>>
    ELSE (IF AbsentCell(Head(ledger).server_id) /\ AbsentCell(Head(ledger).name)
          THEN <<>> ELSE <<RenderRow(Head(ledger))>>)
         \o generateMappingExcel(Tail(ledger))

-----------------------------------------------------------------------------
(* main() *)

\* test_jira_cloud_connection: True only for an answer with status 200
test_jira_cloud_connection(r) == ~r.fail /\ r.code = HTTP_OK

\* the third check: some *.json file loads and holds the key 'rules'
FoundRules(json_files) ==
    \E i \in 1..Len(json_files) : json_files[i].loads /\ json_files[i].has_rules

\* the checks, were the third one to ask only for a JSON file
initial_checks_AnyJson(e) ==
    /\ e.mapping_xlsx
    /\ test_jira_cloud_connection(e.connection)
    /\ e.json_files # <<>>

\* initial_checks: each check is made only when the previous one passed
initial_checks(e) ==
    /\ e.mapping_xlsx
    /\ test_jira_cloud_connection(e.connection)
    /\ e.json_files # <<>>
    /\ FoundRules(e.json_files)

NoFiles ==
    [written |-> {}, log |-> <<>>, backup |-> [has_rules |-> FALSE, rules |-> <<>>], working |-> <<>>,
     pretty |-> [rules |-> <<>>, cloud |-> FALSE], split |-> <<>>, report |-> <<>>]

\* open(name, 'w') ... : the file is written, whole
Written(f, name) == [f EXCEPT !.written = @ \cup {name}, !.log = Append(@, name)]

\* the order of the steps of main() after the confirmation
Steps ==
    <<"removeDisabled", "fixedFields", "customFields", "status", "priority", "issuetype",
      "project", "users", "jirausers", "oneOfStatus", "oneOfIssueType", "oneOfPriority",
      "formatJSON", "split", "report", "done">>

\* the step after a step, were the project pass left out of the run
StepAfter_NoProject(step) ==
    IF step = "issuetype" THEN "users"
    ELSE Steps[(CHOOSE i \in 1..Len(Steps) : Steps[i] = step) + 1]

StepAfter(step) == Steps[(CHOOSE i \in 1..Len(Steps) : Steps[i] = step) + 1]

\* what a pass left: the text it wrote, the length of the ledger, and the keys
\* it asked the cloud an account for (kept by replaceJIRAUSERUsers)
Snapshot(step, data, led) == [pass |-> step, data |-> data, n |-> Len(led), asked |-> <<>>]
Asked(st) == IF "asked" \in DOMAIN st THEN st.asked ELSE <<>>

\* a rewriting pass of the working file: on an exception main() prints and ends
RunPass(step, st) ==
    /\ pc = step
    /\ mapping_data' = st.led
    /\ IF st.raised
       THEN /\ pc' = "error"
            /\ UNCHANGED <<files, hist>>
       ELSE /\ pc' = StepAfter(step)
            /\ files' = [Written(files, "working") EXCEPT !.working = st.data]
            /\ hist' = Append(hist, [Snapshot(step, st.data, st.led) EXCEPT !.asked = Asked(st)])
    /\ UNCHANGED <<env, wb, cloud, input, answers, arg, ret>>

NoChange(data, led) == [data |-> data, led |-> led, raised |-> FALSE]

ConnectionAnswers ==
    { [fail |-> FALSE, code |-> HTTP_OK], [fail |-> FALSE, code |-> 401], [fail |-> TRUE, code |-> 0] }

Untested == [fail |-> TRUE, code |-> 0]

JsonDirs ==
    { <<>>,
      << [loads |-> TRUE, has_rules |-> FALSE] >>,
      << [loads |-> FALSE, has_rules |-> FALSE], [loads |-> TRUE, has_rules |-> TRUE] >> }

JsonDirs_WithRules == << [loads |-> TRUE, has_rules |-> TRUE] >>

\* what initial_checks gets to see: a check that is not reached reads nothing
EnvSeen(m, c, j) ==
    [mapping_xlsx |-> m,
     connection   |-> IF m THEN c ELSE Untested,
     json_files   |-> IF m /\ test_jira_cloud_connection(c) THEN j ELSE <<>>]

InitialChecks ==
    /\ pc = "start"
    /\ \E m \in BOOLEAN, c \in ConnectionAnswers, j \in JsonDirs :
          /\ env' = EnvSeen(m, c, j)
          /\ pc' = IF initial_checks(EnvSeen(m, c, j)) THEN "checked" ELSE "exit1"
    /\ UNCHANGED <<wb, cloud, input, answers, files, mapping_data, hist, arg, ret>>

\* select_file: None when the prompt gives no answers
SelectFile ==
    /\ pc = "checked"
    /\ \E sel \in BOOLEAN, split \in BOOLEAN :
          /\ answers' = [selected |-> sel, split_files |-> sel /\ split, proceed |-> FALSE]
          /\ pc' = IF sel THEN "selected" ELSE "returned"
    /\ UNCHANGED <<env, wb, cloud, input, files, mapping_data, hist, arg, ret>>

\* inquirer.confirm("Do you want to proceed with the migration?")
Confirm ==
    /\ pc = "selected"
    /\ \E go \in BOOLEAN :
          /\ answers' = [answers EXCEPT !.proceed = go]
          /\ pc' = IF go THEN "removeDisabled" ELSE "cancelled"
    /\ UNCHANGED <<env, wb, cloud, input, files, mapping_data, hist, arg, ret>>

RemoveDisabled ==
    /\ pc = "removeDisabled"
    /\ pc' = StepAfter("removeDisabled")
    /\ files' = [Written(Written(files, "backup"), "working") EXCEPT
                    !.backup = removeDisabledBackup(input),
                    !.working = removeDisabledWorking(input)]
    /\ hist' = Append(hist, Snapshot("removeDisabled", removeDisabledWorking(input), mapping_data))
    /\ UNCHANGED <<env, wb, cloud, input, answers, mapping_data, arg, ret>>

ReplaceFixedFields ==
    RunPass("fixedFields", NoChange(replaceFixedFields(files.working), mapping_data))

ReplaceCustomFields ==
    RunPass("customFields", replaceCustomFields(files.working, mapping_data))

ReplaceStatus    == RunPass("status", replaceStatus(files.working, mapping_data))
ReplacePriority  == RunPass("priority", replacePriority(files.working, mapping_data))
ReplaceIssueType == RunPass("issuetype", replaceIssueType(files.working, mapping_data))
ReplaceProject   == RunPass("project", replaceProject(files.working, mapping_data))
ReplaceUsers     == RunPass("users", replaceUsers(UserTemplates, files.working, mapping_data))
ReplaceJIRAUSERUsers == RunPass("jirausers", replaceJIRAUSERUsers(files.working, mapping_data))

ReplaceOneOfStatus ==
    RunPass("oneOfStatus", replaceOneOfCondition("status", files.working, mapping_data))
ReplaceOneOfIssueType ==
    RunPass("oneOfIssueType", replaceOneOfCondition("issuetype", files.working, mapping_data))
ReplaceOneOfPriority ==
    RunPass("oneOfPriority", replaceOneOfCondition("priority", files.working, mapping_data))

FormatJSON ==
    /\ pc = "formatJSON"
    /\ pc' = IF answers.split_files THEN "split" ELSE "report"
    /\ files' = [Written(files, "pretty") EXCEPT !.pretty = formatJSON(files.working)]
    /\ UNCHANGED <<env, wb, cloud, input, answers, mapping_data, hist, arg, ret>>

RECURSIVE WrittenAll(_, _)
WrittenAll(f, n) == IF n = 0 THEN f ELSE Written(WrittenAll(f, n - 1), "split")

SplitFiles ==
    /\ pc = "split"
    /\ pc' = "report"
    /\ files' = [WrittenAll(files, Len(splitRules(files.working))) EXCEPT
                    !.split = splitRules(files.working)]
    /\ UNCHANGED <<env, wb, cloud, input, answers, mapping_data, hist, arg, ret>>

GenerateMappingExcel ==
    /\ pc = "report"
    /\ pc' = "done"
    /\ files' = [Written(files, "report") EXCEPT !.report = generateMappingExcel(mapping_data)]
    /\ UNCHANGED <<env, wb, cloud, input, answers, mapping_data, hist, arg, ret>>

-----------------------------------------------------------------------------
(* The inputs of a run: the selected file, the workbook, the destination   *)

MaxRules == 2      \* rules of an input file whose states vary
MaxRows  == 2      \* data rows of a sheet whose rows vary

\* all sequences over S of length at most n
SeqsUpTo(S, n) == UNION {[1..k -> S] : k \in 0..n}

Row(a, b) == [A |-> a, B |-> b]
Cand(name, id) == [name |-> name, id |-> id]
Answer(values) == [fail |-> FALSE, code |-> HTTP_OK, values |-> values]
Found(name, id) == Answer(<<Cand(name, id)>>)
Refused == [fail |-> FALSE, code |-> 404, values |-> <<>>]
Failed  == [fail |-> TRUE, code |-> 0, values |-> <<>>]

\* identifiers and names
D10050 == <<"1", "0", "0", "5", "0">>
D10060 == <<"1", "0", "0", "6", "0">>
D10099 == <<"1", "0", "0", "9", "9">>
D1009  == <<"1", "0", "0", "9">>
CF(digits) == <<CFP>> \o digits
JU(n) == <<"JIRAUSER", n>>

\* the fragments of rule text the passes look for
StatusRef(t, id)        == <<Q>> \o StatusTemplates[t] \o id \o <<Q, "}">>
SetRef(kind, id)        == <<Q>> \o SetEqualsTemplates(kind)[1] \o id \o <<Q, "}">>
EqualsRef(kind, id)     == <<Q>> \o SetEqualsTemplates(kind)[2] \o id \o <<Q, "}">>
ProjectIdRef(id)        == <<Q, "projectId\": \"">> \o id \o <<Q>>
OneOfCond(kind, cmp, ids) == OneOfPrefix(kind, cmp) \o <<LB>> \o Join(ids) \o <<RB, Q, "}">>
UserRef(t, key)         == UserTemplates[t] \o key \o <<Q>>
UserMention(key)        == <<"\"assignee\": \"">> \o key \o <<Q>>
UserText(key)           == <<"\"comment\": \"ask ">> \o key \o <<" first", Q>>
CfRef(digits)           == <<OB, TID, VAL, CFP>> \o digits \o <<Q, "}">>
CfSmart(digits)         == <<"{{issue.", CFP>> \o digits \o <<"}}">>

RuleIds == <<"101", "102", "103", "104">>

\* the input file whose i-th rule has state parts[i].state and components parts[i].body
RECURSIVE MkRules(_, _)
MkRules(parts, i) ==
    IF i > Len(parts) THEN <<>>
    ELSE << [id |-> RuleIds[i], state |-> parts[i].state, name |-> "Rule", body |-> parts[i].body] >>
         \o MkRules(parts, i + 1)

MkDoc(parts) == [has_rules |-> TRUE, rules |-> MkRules(parts, 1)]
OneRule(body) == MkDoc(<< [state |-> ENABLED_STATE, body |-> body] >>)

Header(a, b) == Row(<<a>>, <<b>>)

BaseWb ==
    [users        |-> <<Header("user_name", "lower_email_address"),
                        Row(JU("10"), <<"a@x">>), Row(<<"bob">>, <<"b@x">>)>>,
     customFields |-> <<Header("id", "cfname"), Row(D10050, <<"Severity">>)>>,
     projects     |-> <<Header("id", "pkey"), Row(<<"10000">>, <<"PRJ">>)>>,
     status       |-> <<Header("id", "pname"), Row(<<"3">>, <<"Open">>), Row(<<"5">>, <<"Done">>)>>,
     priority     |-> <<Header("id", "pname"), Row(<<"2">>, <<"High">>)>>,
     issuetype    |-> <<Header("id", "pname"), Row(<<"1">>, <<"Bug">>)>>]

BaseCloud ==
    [customfield |-> (<<"Severity">> :> Found(<<"Severity">>, CF(D10099))),
     status      |-> (<<"Open">> :> Found(<<"Open">>, <<"10">>)) @@
                     (<<"Done">> :> Found(<<"Done">>, <<"11">>)),
     priority    |-> Answer(<<Cand(<<"Low">>, <<"21">>), Cand(<<"High">>, <<"20">>)>>),
     issuetype   |-> Answer(<<Cand(<<"Bug">>, <<"30">>)>>),
     project     |-> (<<"PRJ">> :> Found(<<"PRJ">>, <<"40">>)),
     user        |-> (<<"a@x">> :> Found(<<"a@x">>, <<"acc1">>)) @@
                     (<<"b@x">> :> Found(<<"b@x">>, <<"acc2">>))]

BaseBody ==
    StatusRef(1, <<"3">>) \o CfRef(D10050) \o EqualsRef("priority", <<"2">>)
    \o SetRef("issuetype", <<"1">>) \o ProjectIdRef(<<"10000">>) \o UserRef(1, JU("10"))
    \o OneOfCond("status", "ONE_OF", << <<"3">>, <<"5">> >>)

Scenario(doc, w, c) == [input |-> doc, wb |-> w, cloud |-> c]

\* family 1: the states of the rules vary
RuleStates == {ENABLED_STATE, DISABLED_STATE, "null"}
RuleParts == [state : RuleStates, body : {BaseBody, StatusRef(2, <<"5">>)}]
RuleScenarios ==
    {Scenario(MkDoc(parts), BaseWb, BaseCloud) : parts \in SeqsUpTo(RuleParts, MaxRules)}
    \cup {Scenario([has_rules |-> FALSE, rules |-> <<>>], BaseWb, BaseCloud)}

\* family 2: the rows of the status sheet and the answers of the cloud vary
StatusRows ==
    {Row(<<"3">>, <<"Open">>), Row(<<"5">>, <<"Done">>), Row(None, None),
     Row(None, <<"Ghost">>), Row(<<"None">>, <<"None">>)}
StatusSheets == {<<Header("id", "pname")>> \o rows : rows \in SeqsUpTo(StatusRows, MaxRows)}
StatusClouds ==
    {(<<"Open">> :> o) @@ (<<"Done">> :> d) @@ (<<"Ghost">> :> Found(<<"Ghost">>, <<"9">>)) :
        o \in {Found(<<"Open">>, <<"5">>), Found(<<"Open">>, <<"10">>), Refused},
        d \in {Found(<<"Done">>, <<"7">>), Refused, Failed}}
StatusBodies ==
    {StatusRef(1, <<"3">>) \o StatusRef(2, <<"5">>) \o StatusRef(3, <<"3">>),
     StatusRef(1, <<"5">>) \o OneOfCond("status", "ONE_OF", << <<"3">>, <<"5">> >>)}
StatusScenarios ==
    {Scenario(OneRule(b), [BaseWb EXCEPT !.status = sh], [BaseCloud EXCEPT !.status = c]) :
        b \in StatusBodies, sh \in StatusSheets, c \in StatusClouds}

\* family 3: the custom fields the text refers to and the ids the cloud gives them
D100501 == <<"1", "0", "0", "5", "0", "1">>
D10088  == <<"1", "0", "0", "8", "8">>
CfSheets ==
    {<<Header("id", "cfname"), Row(D10050, <<"Severity">>), Row(D10060, <<"Team">>)>>,
     <<Header("id", "cfname"), Row(D10050, <<"Severity">>)>>}
CfClouds ==
    {(<<"Severity">> :> sv) @@ (<<"Team">> :> tm) :
        sv \in {Found(<<"Severity">>, CF(D10099)), Found(<<"Severity">>, CF(D1009)),
                Found(<<"Severity">>, CF(D10060)), Found(<<"Severity">>, CF(D10050)),
                Refused, Failed},
        tm \in {Found(<<"Team">>, CF(D10088)), Refused}}
CfBodies ==
    {CfSmart(D10050) \o CfSmart(D10060),
     CfSmart(D10050) \o CfSmart(D10050),
     CfRef(D10050) \o CfSmart(D10050),
     CfSmart(D10060) \o CfSmart(D10050),
     CfRef(D100501) \o CfSmart(D10060),
     <<Q, CRT, Q>> \o CfRef(D10060)}
CfScenarios ==
    {Scenario(OneRule(b), [BaseWb EXCEPT !.customFields = sh],
              [BaseCloud EXCEPT !.customfield = c]) :
        b \in CfBodies, sh \in CfSheets, c \in CfClouds}

\* family 4: the users the text mentions and the accounts the cloud finds
UsersSheet ==
    <<Header("user_name", "lower_email_address"), Row(JU("10"), <<"a@x">>),
      Row(<<"bob">>, <<"b@x">>), Row(JU("11"), None)>>
UserClouds ==
    {(<<"a@x">> :> a) @@ (<<"b@x">> :> b) :
        a \in {Found(<<"a@x">>, <<"acc1">>),
               Answer(<<Cand(<<"aa@x">>, <<"accX">>), Cand(<<"a@x">>, <<"acc1">>)>>),
               Answer(<<>>), Refused, Failed},
        b \in {Found(<<"b@x">>, <<"acc2">>), Refused}}
UserBodies ==
    {UserRef(1, JU("10")) \o UserRef(3, <<"bob">>),
     UserMention(JU("10")),
     UserMention(<<"bob">>) \o UserRef(2, JU("11")),
     UserRef(1, JU("10")) \o UserMention(JU("10")),
     UserMention(JU("11")),
     UserText(JU("10")) \o UserRef(3, <<"bob">>)}
UserScenarios ==
    {Scenario(OneRule(b), [BaseWb EXCEPT !.users = UsersSheet], [BaseCloud EXCEPT !.user = c]) :
        b \in UserBodies, c \in UserClouds}

\* family 5: the set-membership conditions and the ids in their arrays
OneOfWb ==
    [BaseWb EXCEPT !.priority = <<Header("id", "pname"), Row(<<"2">>, <<"High">>),
                                  Row(<<"3">>, <<"Low">>)>>]
OneOfClouds ==
    {(<<"Open">> :> o) @@ (<<"Done">> :> d) :
        o \in {Found(<<"Open">>, <<"10">>), Refused},
        d \in {Found(<<"Done">>, <<"11">>), Refused, Failed}}
OneOfBodies ==
    {OneOfCond("status", "ONE_OF", << <<"3">>, <<"5">> >>),
     OneOfCond("status", "NOT_ONE_OF", << <<"3">>, <<"8">>, <<"5">> >>),
     OneOfCond("status", "ONE_OF", << <<"3">> >>) \o OneOfCond("priority", "ONE_OF", << <<"3">> >>),
     OneOfCond("issuetype", "ONE_OF", << <<"1">> >>)
        \o OneOfCond("priority", "NOT_ONE_OF", << <<"2">>, <<"3">> >>),
     OneOfCond("status", "ONE_OF", << <<"8">> >>),
     StatusRef(1, <<"3">>) \o OneOfCond("status", "ONE_OF", << <<"5">>, <<"3">> >>)}
OneOfScenarios ==
    {Scenario(OneRule(b), OneOfWb, [BaseCloud EXCEPT !.status = c]) :
        b \in OneOfBodies, c \in OneOfClouds}

\* family 6: the answers for priorities, issue types and projects vary
KindClouds ==
    {[BaseCloud EXCEPT !.priority = p, !.issuetype = i, !.project = (<<"PRJ">> :> j)] :
        p \in {BaseCloud.priority, Answer(<<>>), Refused, Failed},
        i \in {BaseCloud.issuetype, Refused},
        j \in {Found(<<"PRJ">>, <<"40">>), Refused}}
KindBodies ==
    {BaseBody,
     SetRef("priority", <<"2">>) \o EqualsRef("issuetype", <<"1">>) \o ProjectIdRef(<<"10000">>)}
KindScenarios == {Scenario(OneRule(b), BaseWb, c) : b \in KindBodies, c \in KindClouds}

Scenarios ==
    RuleScenarios \cup StatusScenarios \cup CfScenarios \cup UserScenarios
    \cup OneOfScenarios \cup KindScenarios

Init ==
    /\ pc = "start"
    /\ env = EnvSeen(FALSE, Untested, <<>>)
    /\ \E sc \in Scenarios : input = sc.input /\ wb = sc.wb /\ cloud = sc.cloud
    /\ answers = [selected |-> FALSE, split_files |-> FALSE, proceed |-> FALSE]
    /\ files = NoFiles
    /\ mapping_data = <<>>
    /\ hist = <<>>
    /\ arg = <<>>
    /\ ret = <<>>

Next ==
    \/ InitialChecks
    \/ SelectFile
    \/ Confirm
    \/ RemoveDisabled
    \/ ReplaceFixedFields
    \/ ReplaceCustomFields
    \/ ReplaceStatus
    \/ ReplacePriority
    \/ ReplaceIssueType
    \/ ReplaceProject
    \/ ReplaceUsers
    \/ ReplaceJIRAUSERUsers
    \/ ReplaceOneOfStatus
    \/ ReplaceOneOfIssueType
    \/ ReplaceOneOfPriority
    \/ FormatJSON
    \/ SplitFiles
    \/ GenerateMappingExcel

Spec == Init /\ [][Next]_vars

-----------------------------------------------------------------------------
(* The run as the passes left it: hist holds, for every pass that wrote    *)
(* the working file, the text it wrote and the length of the ledger then.  *)

HasRun(step) == \E i \in 1..Len(hist) : hist[i].pass = step
IndexOf(step) == CHOOSE i \in 1..Len(hist) : hist[i].pass = step
TextAfter(step) == hist[IndexOf(step)].data
TextBefore(step) == hist[IndexOf(step) - 1].data
\* the ledger rows the pass appended
RowsOf(step) == SubSeq(mapping_data, hist[IndexOf(step) - 1].n + 1, hist[IndexOf(step)].n)
InSeq(x, seq) == \E i \in 1..Len(seq) : seq[i] = x
Count(x, seq) == Cardinality({i \in 1..Len(seq) : seq[i] = x})

-----------------------------------------------------------------------------
(* The disable filter *)

\* the rules of the input that are ENABLED, in the order of the input
InputEnabled == SelectSeq(RulesOfInput(input), LAMBDA r : r.state = ENABLED_STATE)

\* C3: once removeDisabled has run, the text it wrote is {rules: [...], cloud:
\* false} around exactly the ENABLED rules of the input in their order, as many
\* as the input has ENABLED rules, and in every later state every rule of the
\* working file is a rule of the input whose state was ENABLED.
C3_DisableFilter ==
    HasRun("removeDisabled") =>
        /\ TextAfter("removeDisabled") = <<HDR>> \o RulesText(InputEnabled) \o <<TAIL>>
        /\ Len(ParseRules(TextAfter("removeDisabled")))
             = Cardinality({i \in DOMAIN RulesOfInput(input) :
                               RulesOfInput(input)[i].state = ENABLED_STATE})
        /\ \A k \in DOMAIN ParseRules(files.working) :
              \E i \in DOMAIN RulesOfInput(input) :
                 /\ RulesOfInput(input)[i].id = ParseRules(files.working)[k].id
                 /\ RulesOfInput(input)[i].state = ENABLED_STATE

\* a finished run on two rules, the first of them DISABLED, that kept the other
C3_Witness ==
    /\ pc = "done"
    /\ Len(RulesOfInput(input)) = 2
    /\ RulesOfInput(input)[1].state = DISABLED_STATE
    /\ Len(ParseRules(files.working)) = 1

-----------------------------------------------------------------------------
(* The preconditions and the go-ahead *)

\* the three preconditions, as the environment has them
PreconditionsHold ==
    /\ env.mapping_xlsx
    /\ env.connection = [fail |-> FALSE, code |-> HTTP_OK]
    /\ \E i \in DOMAIN env.json_files : env.json_files[i].loads /\ env.json_files[i].has_rules

NothingDone == files.written = {} /\ files.log = <<>> /\ mapping_data = <<>> /\ hist = <<>>

\* C7: a file is written or a ledger record appended only when the three
\* preconditions hold, a file was selected and the go-ahead given; once the
\* checks are made with a precondition failing the run is at its failure exit
\* with nothing written, and a run the user declined has written nothing.
C7_GatedRewrite ==
    /\ ~NothingDone => PreconditionsHold /\ answers.selected /\ answers.proceed
    /\ (pc # "start" /\ ~PreconditionsHold) => pc = "exit1" /\ NothingDone
    /\ pc = "exit1" => ~PreconditionsHold
    /\ pc \in {"returned", "cancelled"} => NothingDone

\* the check found a directory of JSON files none of which holds rules, and the run stopped
C7_Witness ==
    /\ pc = "exit1"
    /\ env.mapping_xlsx
    /\ test_jira_cloud_connection(env.connection)
    /\ env.json_files # <<>>
    /\ NothingDone

-----------------------------------------------------------------------------
(* Entity records and the contexts they stand in *)

\* the records of a kind: the rows below the header that hold an id and a name
DataRows(kind) ==
    {r \in 2..Len(SheetOf(kind)) : NonBlank(CellA(SheetOf(kind), r)) /\ Truthy(CellB(SheetOf(kind), r))}
IdOfRow(kind, r) == Strip(StrOf(CellA(SheetOf(kind), r)))
NameOfRow(kind, r) == CellB(SheetOf(kind), r)
Resolves(kind, name) == Resolve(kind, name) # Raise /\ Truthy(Resolve(kind, name))

\* the pass of main() that rewrites the contexts of a kind
PassOf(kind) == IF kind = "user" THEN "users" ELSE kind

\* the occurrences of the template t in the text, counted from the left, that
\* are followed by the id and a closing quote
Slots(text, t, id) ==
    {k \in 1..Len(FindAll(text, t)) : MatchAt(text, t \o id \o <<Q>>, FindAll(text, t)[k])}
TemplateSet(kind) == {TemplatesOf(kind)[i] : i \in 1..Len(TemplatesOf(kind))}
TemplateKinds == {"status", "priority", "issuetype", "project", "user"}

\* C1: at the end of the run, for every status, priority, issue-type, project
\* or user record whose name resolves and one of whose contexts was in the
\* text, every place where a template of the kind was followed by the record's
\* server id holds that template followed by the cloud id resolved for the record.
C1_TemplateReplacement ==
    pc = "done" =>
        \A kind \in TemplateKinds : \A r \in DataRows(kind) :
            (/\ Resolves(kind, NameOfRow(kind, r))
             /\ \E t \in TemplateSet(kind) : Slots(TextBefore(PassOf(kind)), t, IdOfRow(kind, r)) # {})
            => \A t \in TemplateSet(kind) :
                  Slots(TextBefore(PassOf(kind)), t, IdOfRow(kind, r))
                     \subseteq Slots(files.working, t, Resolve(kind, NameOfRow(kind, r)))

-----------------------------------------------------------------------------
(* Lookups that fail *)

\* C8: a run that passed the go-ahead and has come to its end, whatever the
\* lookups answered, has run every pass and has written the pretty document
\* and the mapping report.
C8_LookupNeverFatal ==
    (answers.proceed /\ pc \in {"done", "error"}) =>
        /\ \A i \in 1..12 : HasRun(Steps[i])
        /\ {"pretty", "report"} \subseteq files.written

-----------------------------------------------------------------------------
(* Records the cloud does not know *)

\* the server id of a record as the text writes it
IdText(kind, r) == IF kind = "customfield" THEN CF(IdOfRow(kind, r)) ELSE IdOfRow(kind, r)
Occurrences(text, sub) == Len(FindAll(text, sub))

UnresolvedRead(kind) ==
    {i \in 1..Len(RowsToProcess(SheetOf(kind))) :
        /\ Truthy(CellB(SheetOf(kind), RowsToProcess(SheetOf(kind))[i]))
        /\ Resolve(kind, CellB(SheetOf(kind), RowsToProcess(SheetOf(kind))[i])) = None}
ReadId(kind, i) == Strip(StrOf(CellA(SheetOf(kind), RowsToProcess(SheetOf(kind))[i])))
ReadName(kind, i) == CellB(SheetOf(kind), RowsToProcess(SheetOf(kind))[i])
\* another row the pass reads holds the same server id and resolves
ResolvedTwin(kind, id) ==
    \E j \in 1..Len(RowsToProcess(SheetOf(kind))) :
        ReadId(kind, j) = id /\ Resolves(kind, ReadName(kind, j))

\* the keys of the users sheet that stand in the text the user pass reads, have
\* an e-mail in the store and no account in the cloud
UnresolvedUsers ==
    {r \in 1..Len(wb.users) :
        /\ NonBlank(wb.users[r].A)
        /\ Contains(TextBefore("users"), Strip(StrOf(wb.users[r].A)))
        /\ Truthy(getEmailforUserInExcel(Strip(StrOf(wb.users[r].A))))
        /\ Resolve("user", getEmailforUserInExcel(Strip(StrOf(wb.users[r].A)))) = None}
UserKey(r) == Strip(StrOf(wb.users[r].A))

-----------------------------------------------------------------------------
(* The custom-field pass *)

\* the occurrences of customfield_, counted from the left, that the id follows
CfSlots(text, cfid) ==
    {k \in 1..Len(FindAll(text, <<CFP>>)) : MatchAt(text, cfid, FindAll(text, <<CFP>>)[k])}

\* C4: once replaceCustomFields has run, for every custom field of the store
\* whose name resolves and whose server id stood in the text, every place that
\* held the server id holds the cloud id resolved for the field, and the pass
\* appended exactly one ledger row {customfield, name, server id, cloud id}.
C4_CustomFieldPass ==
    HasRun("customFields") =>
        \A r \in DataRows("customfield") :
            (/\ Resolves("customfield", NameOfRow("customfield", r))
             /\ CfSlots(TextBefore("customFields"), IdText("customfield", r)) # {})
            => /\ CfSlots(TextBefore("customFields"), IdText("customfield", r))
                    \subseteq CfSlots(TextAfter("customFields"),
                                      Resolve("customfield", NameOfRow("customfield", r)))
               /\ Count(Entry("customfield", NameOfRow("customfield", r), IdText("customfield", r),
                              Resolve("customfield", NameOfRow("customfield", r))),
                        RowsOf("customFields")) = 1

-----------------------------------------------------------------------------
(* The set-membership pass *)

OneOfKinds == {"status", "issuetype", "priority"}
OneOfStep(kind) ==
    CASE kind = "status"    -> "oneOfStatus"
      [] kind = "issuetype" -> "oneOfIssueType"
      [] kind = "priority"  -> "oneOfPriority"

\* the ids of the array that have a name in the store and a cloud id for the name
ResolvedOf(kind, ids) ==
    SelectSeq(ids, LAMBDA id : /\ Truthy(getNameInExcel(kind, Strip(id)))
                               /\ Resolves(kind, getNameInExcel(kind, Strip(id))))
\* their cloud ids, in the order of the array
CloudIdsOf(kind, ids) ==
    [i \in 1..Len(ResolvedOf(kind, ids)) |->
        Resolve(kind, getNameInExcel(kind, Strip(ResolvedOf(kind, ids)[i])))]

\* the arrays of the conditions of a kind and a comparison, decoded, left to right
ArraysOf(text, kind, cmp) ==
    [k \in 1..Len(FindGroups(text, OneOfPrefix(kind, cmp))) |->
        DecodeArray(FindGroups(text, OneOfPrefix(kind, cmp))[k])]

\* C5: once replaceOneOfCondition has run for a kind, the array of every ONE_OF
\* or NOT_ONE_OF condition of that kind holds exactly the cloud ids of the ids
\* it held that resolved, in their order, and nothing else, also when none resolved.
C5_OneOfArrays ==
    \A kind \in OneOfKinds : HasRun(OneOfStep(kind)) =>
        \A cmp \in {"ONE_OF", "NOT_ONE_OF"} :
            /\ Len(ArraysOf(TextAfter(OneOfStep(kind)), kind, cmp))
                  = Len(ArraysOf(TextBefore(OneOfStep(kind)), kind, cmp))
            /\ \A k \in 1..Len(ArraysOf(TextBefore(OneOfStep(kind)), kind, cmp)) :
                  ArraysOf(TextAfter(OneOfStep(kind)), kind, cmp)[k]
                     = CloudIdsOf(kind, ArraysOf(TextBefore(OneOfStep(kind)), kind, cmp)[k])

-----------------------------------------------------------------------------
(* The set-membership pass, run twice on a working file *)

StartFiles == [Written(NoFiles, "working") EXCEPT !.working = removeDisabledWorking(input)]

InitRerun ==
    /\ pc = "rerun"
    /\ env = EnvSeen(TRUE, [fail |-> FALSE, code |-> HTTP_OK], JsonDirs_WithRules)
    /\ \E sc \in OneOfScenarios \cup KindScenarios :
          input = sc.input /\ wb = sc.wb /\ cloud = sc.cloud
    /\ answers = [selected |-> TRUE, split_files |-> FALSE, proceed |-> TRUE]
    /\ files = StartFiles
    /\ mapping_data = <<>>
    /\ hist = <<Snapshot("removeDisabled", removeDisabledWorking(input), <<>>)>>
    /\ arg = <<>>
    /\ ret = <<>>

\* cloud.replaceOneOfCondition(filename, kind) on the working file as it stands
CallOneOf(kind, from, to) ==
    /\ pc = from
    /\ LET st == replaceOneOfCondition(kind, files.working, mapping_data)
       IN  /\ mapping_data' = st.led
           /\ IF st.raised
              THEN pc' = "error" /\ UNCHANGED <<files, hist>>
              ELSE /\ pc' = to
                   /\ files' = [Written(files, "working") EXCEPT !.working = st.data]
                   /\ hist' = Append(hist, Snapshot(OneOfStep(kind), st.data, st.led))
    /\ arg' = <<kind>>
    /\ UNCHANGED <<env, wb, cloud, input, answers, ret>>

FirstRun == \E kind \in OneOfKinds : CallOneOf(kind, "rerun", "once")
SecondRun == CallOneOf(arg[1], "once", "twice")

NextRerun ==
    \/ FirstRun
    \/ SecondRun

SpecRerun == InitRerun /\ [][NextRerun]_vars

\* C6: a second run of replaceOneOfCondition for the same kind leaves the array
\* of every condition of that kind as the first run wrote it.
C6_SecondRunSame ==
    pc = "twice" =>
        \A cmp \in {"ONE_OF", "NOT_ONE_OF"} :
            ArraysOf(hist[3].data, arg[1], cmp) = ArraysOf(hist[2].data, arg[1], cmp)

-----------------------------------------------------------------------------
(* A resolver, called on an answer of the cloud *)

MaxCands == 2      \* candidates of an answer

Candidates ==
    {Cand(<<"Alpha">>, <<"10">>), Cand(<<"Alpha">>, <<"11">>), Cand(<<"alpha">>, <<"12">>),
     Cand(<<"Alpha", " ", "Two">>, <<"13">>)}
CloudAnswers ==
    {[fail |-> FALSE, code |-> c, values |-> v] :
        c \in {HTTP_OK, 404}, v \in SeqsUpTo(Candidates, MaxCands)} \cup {Failed}
SearchedNames == {<<"Alpha">>, <<>>, None}

\* the cloud that gives the answer to the request of the kind for the name
CloudThatAnswers(kind, name, answer) ==
    [BaseCloud EXCEPT ![kind] = IF kind \in {"priority", "issuetype"} THEN answer
                                ELSE (name :> answer)]

InitResolver ==
    /\ pc = "call"
    /\ env = EnvSeen(TRUE, [fail |-> FALSE, code |-> HTTP_OK], JsonDirs_WithRules)
    /\ input = OneRule(BaseBody)
    /\ wb = BaseWb
    /\ \E kind \in Kinds, name \in SearchedNames, answer \in CloudAnswers :
          /\ arg = [kind |-> kind, name |-> name, answer |-> answer]
          /\ cloud = CloudThatAnswers(kind, name, answer)
    /\ answers = [selected |-> TRUE, split_files |-> FALSE, proceed |-> TRUE]
    /\ files = NoFiles
    /\ mapping_data = <<>>
    /\ hist = <<>>
    /\ ret = <<>>

CallResolver ==
    /\ pc = "call"
    /\ pc' = "returned"
    /\ ret' = Resolve(arg.kind, arg.name)
    /\ UNCHANGED <<env, wb, cloud, input, answers, files, mapping_data, hist, arg>>

NextResolver == CallResolver

SpecResolver == InitResolver /\ [][NextResolver]_vars

\* the candidates of the answer whose name is the name searched for
ExactHits == {i \in 1..Len(arg.answer.values) : arg.answer.values[i].name = arg.name}

\* C9: every resolver, on an answer that arrived, returns the id of the first
\* candidate whose name is exactly the value searched for, and none when the
\* status is not success, when there is no candidate or when none matches exactly.
C9_ExactMatchOnly ==
    (pc = "returned" /\ ~arg.answer.fail) =>
        IF arg.answer.code # HTTP_OK \/ ExactHits = {}
        THEN ret = None
        ELSE ret = arg.answer.values[CHOOSE i \in ExactHits : \A j \in ExactHits : i <= j].id

-----------------------------------------------------------------------------
(* The report, rendered from a ledger *)

MaxLedger == 2     \* records of a ledger

LedgerRecords ==
    [type : {"status"}, name : {None, <<"None">>, <<"Open">>},
     server_id : {None, <<"None">>, <<>>, <<"3">>}, cloud_id : {None, <<"10">>}]

InitReport ==
    /\ pc = "report"
    /\ env = EnvSeen(TRUE, [fail |-> FALSE, code |-> HTTP_OK], JsonDirs_WithRules)
    /\ input = OneRule(BaseBody)
    /\ wb = BaseWb
    /\ cloud = BaseCloud
    /\ answers = [selected |-> TRUE, split_files |-> FALSE, proceed |-> TRUE]
    /\ files = NoFiles
    /\ mapping_data \in SeqsUpTo(LedgerRecords, MaxLedger)
    /\ hist = <<>>
    /\ arg = <<>>
    /\ ret = <<>>

NextReport == GenerateMappingExcel

SpecReport == InitReport /\ [][NextReport]_vars

\* absent: no value, an empty text or the text None
Absent(v) == v = None \/ v = <<>> \/ v = <<"None">>
\* the records of the ledger that are not without both server id and name
Reported == SelectSeq(mapping_data, LAMBDA e : ~(Absent(e.server_id) /\ Absent(e.name)))

\* C10: the report holds, in the order of the ledger, one row for every record
\* but those whose server id and name are both absent; a row carries the kind,
\* the name, the server id and the cloud id of its record, its missing flag is
\* YES exactly when the record's cloud id is null, and its cloud-id cell is
\* empty exactly when the flag is YES.
C10_ReportRows ==
    "report" \in files.written =>
        /\ Len(files.report) = Len(Reported)
        /\ \A i \in 1..Len(Reported) :
              /\ files.report[i].type = Reported[i].type
              /\ files.report[i].name = Reported[i].name
              /\ files.report[i].server_id = StrOf(Reported[i].server_id)
              /\ Reported[i].cloud_id # None => files.report[i].cloud_id = Reported[i].cloud_id
              /\ files.report[i].missing = "YES" <=> Reported[i].cloud_id = None
              /\ files.report[i].cloud_id = None <=> files.report[i].missing = "YES"

\* a ledger of two records, one without server id and name, the other without
\* cloud id, rendered as the one row of the second
C10_Witness ==
    /\ "report" \in files.written
    /\ Len(mapping_data) = 2
    /\ Absent(mapping_data[1].server_id) /\ Absent(mapping_data[1].name)
    /\ Len(files.report) = 1
    /\ files.report[1].missing = "YES"

-----------------------------------------------------------------------------
(* The split into one file per rule *)

SplitDone == pc \in {"report", "done"}

\* the per-rule document of the i-th rule of the working file
PerRuleDoc(i) ==
    [file |-> <<IntText(i), "-", ParseRules(files.working)[i].id, "-modified-for-cloud.json">>,
     doc  |-> [rules |-> << [ParseRules(files.working)[i] EXCEPT
                                !.name = <<IntText(i), " - ", ParseRules(files.working)[i].name>>] >>,
               cloud |-> FALSE]]

SplitAsNamed ==
    /\ Len(files.split) = Len(ParseRules(files.working))
    /\ \A i \in 1..Len(ParseRules(files.working)) : files.split[i] = PerRuleDoc(i)
NoSplitUnasked == ~answers.split_files => files.split = <<>> /\ "split" \notin files.written

\* C11 as the specification states it: after a split that was asked for there
\* is one document per rule of the working file, which is one per input rule
\* that is not DISABLED, each {rules: [rule], cloud: false}, named
\* <position>-<id>-modified-for-cloud.json, the rule's name prefixed with its
\* position; no per-rule document is written when the split was not asked for.
C11_SplitPerNonDisabled ==
    /\ (SplitDone /\ answers.split_files) =>
          /\ SplitAsNamed
          /\ Len(files.split)
                = Cardinality({i \in DOMAIN RulesOfInput(input) :
                                  RulesOfInput(input)[i].state # DISABLED_STATE})
    /\ NoSplitUnasked

\* C11, amended: after a split that was asked for there is one document per
\* rule of the working file, which is one per ENABLED rule of the input, each
\* {rules: [rule], cloud: false}, named <position>-<id>-modified-for-cloud.json
\* by the rule's position in the working file, the rule's name prefixed with
\* that position; no per-rule document is written when the split was not asked for.
C11_SplitPerEnabled ==
    /\ (SplitDone /\ answers.split_files) =>
          /\ SplitAsNamed
          /\ Len(files.split) = Len(InputEnabled)
    /\ NoSplitUnasked

\* a finished run that split a working file of two rules
C11_Witness ==
    /\ pc = "done"
    /\ answers.split_files
    /\ Len(files.split) = 2
    /\ Count("split", files.log) = 2

-----------------------------------------------------------------------------
(* The legacy user keys *)

\* the legacy keys of the users sheet that stand in the text the pass reads
\* and have no e-mail in the store
LegacyWithoutEmail ==
    {r \in 1..Len(wb.users) :
        /\ IsJiraUserKey(wb.users[r].A)
        /\ Contains(TextBefore("jirausers"), UserKey(r))
        /\ ~Truthy(getEmailforUserInExcel(UserKey(r)))}
\* the legacy keys of the sheet that stand in the text and have an e-mail
LegacyWithEmail ==
    {r \in 1..Len(wb.users) :
        /\ IsJiraUserKey(wb.users[r].A)
        /\ Contains(TextBefore("jirausers"), UserKey(r))
        /\ Truthy(getEmailforUserInExcel(UserKey(r)))}

\* C12: once replaceJIRAUSERUsers has run, for every legacy key that stood in
\* the text and has no e-mail in the store, the text holds <key>" as often as
\* before (and is the same text when no key in it has an e-mail), the pass
\* appended no ledger row for the key and asked the cloud no account for it.
C12_LegacyKeyWithoutEmail ==
    HasRun("jirausers") =>
        /\ \A r \in LegacyWithoutEmail :
              /\ Occurrences(TextAfter("jirausers"), UserKey(r) \o <<Q>>)
                    = Occurrences(TextBefore("jirausers"), UserKey(r) \o <<Q>>)
              /\ \A i \in 1..Len(RowsOf("jirausers")) :
                    RowsOf("jirausers")[i].server_id # UserKey(r)
              /\ ~InSeq(UserKey(r), hist[IndexOf("jirausers")].asked)
        /\ (LegacyWithoutEmail # {} /\ LegacyWithEmail = {}) =>
              TextAfter("jirausers") = TextBefore("jirausers")

\* the pass has run on a text that mentions a legacy key without e-mail
C12_Witness ==
    /\ HasRun("jirausers")
    /\ \E r \in LegacyWithoutEmail : Contains(TextAfter("jirausers"), UserKey(r) \o <<Q>>)

-----------------------------------------------------------------------------
(* The audit backup *)

\* the backup is the first file written, the working file the second, and
\* every file written after it is the working file, the pretty document, a
\* per-rule document or the report; the backup holds the input as it is
BackupFirst ==
    files.log # <<>> =>
        /\ files.log[1] = "backup"
        /\ Len(files.log) >= 2 => files.log[2] = "working"
        /\ \A i \in 2..Len(files.log) : files.log[i] \in {"working", "pretty", "split", "report"}
        /\ files.backup = input

-----------------------------------------------------------------------------
(* The ledger rows of the status, priority, issue-type and project passes *)

SheetKinds == {"status", "priority", "issuetype", "project"}

\* the ledger rows a pass appended for the id and the name of a record
RowsFor(kind, id, name) ==
    {i \in 1..Len(RowsOf(kind)) :
        /\ RowsOf(kind)[i].type = kind
        /\ RowsOf(kind)[i].server_id = id
        /\ RowsOf(kind)[i].name = name}
\* the records of the kind's sheet that hold that id and that name
RecordsLike(kind, r) ==
    {q \in DataRows(kind) : IdOfRow(kind, q) = IdOfRow(kind, r) /\ NameOfRow(kind, q) = NameOfRow(kind, r)}

\* C14: once the status, priority, issue-type or project pass has run it has
\* appended one ledger row for every record of its kind in the store, found in
\* the cloud or not, matched by a template or not, and as many rows as the
\* store holds records of the kind.
C14_OneRowPerRecord ==
    \A kind \in SheetKinds : HasRun(kind) =>
        /\ Len(RowsOf(kind)) = Cardinality(DataRows(kind))
        /\ \A r \in DataRows(kind) :
              Cardinality(RowsFor(kind, IdOfRow(kind, r), NameOfRow(kind, r)))
                 = Cardinality(RecordsLike(kind, r))

-----------------------------------------------------------------------------
(* The ledger rows of the user pass *)

\* the keys the user pass takes its turns for, in the order of the turns
UserTurns == KeysInText(SheetKeysFrom(wb.users, NonBlank, 1), TextBefore("users"))
\* the text as it stands when the k-th turn begins
TextAtTurn(k) ==
    UsersLoop(UserTemplates, SubSeq(UserTurns, 1, k - 1),
              [data |-> TextBefore("users"), led |-> <<>>, raised |-> FALSE]).data
MatchedAtTurn(k) == \E t \in TemplateSet("user") : Slots(TextAtTurn(k), t, UserTurns[k]) # {}
EmailAtTurn(k) == getEmailforUserInExcel(UserTurns[k])
\* the turns that leave a ledger row: an account found and a template matched,
\* or an e-mail for which no account is found
LedgeredTurns ==
    {k \in 1..Len(UserTurns) :
        /\ Truthy(EmailAtTurn(k))
        /\ \/ Resolves("user", EmailAtTurn(k)) /\ MatchedAtTurn(k)
           \/ Resolve("user", EmailAtTurn(k)) = None}
RowOfTurn(k) == Entry("user", EmailAtTurn(k), UserTurns[k], Resolve("user", EmailAtTurn(k)))

\* C15 as the specification states it: every ledger row the user pass appended
\* is for a user that a template matched in the text, whatever the account
\* lookup found.
C15_LedgerOnlyOnMatch ==
    HasRun("users") =>
        \A i \in 1..Len(RowsOf("users")) :
            \E t \in TemplateSet("user") :
                Slots(TextBefore("users"), t, RowsOf("users")[i].server_id) # {}

\* C15, amended: the user pass appends a ledger row for a user whose account
\* is found exactly when a template matched the user in the text at the
\* user's turn, and a row with a null cloud id for a user with an e-mail whose
\* account is not found, matched or not; it appends no other row.
C15_LedgerOnMatchOrMissing ==
    HasRun("users") =>
        /\ Len(RowsOf("users")) = Cardinality(LedgeredTurns)
        /\ \A k \in LedgeredTurns : InSeq(RowOfTurn(k), RowsOf("users"))
        /\ \A i \in 1..Len(RowsOf("users")) :
              \E k \in LedgeredTurns : RowsOf("users")[i] = RowOfTurn(k)

\* the user pass has ledgered, with a null cloud id, a key that no template
\* matched and whose e-mail has no account
C15_Witness ==
    /\ HasRun("users")
    /\ \E k \in LedgeredTurns :
          /\ ~MatchedAtTurn(k)
          /\ Resolve("user", EmailAtTurn(k)) = None
          /\ InSeq(RowOfTurn(k), RowsOf("users"))

-----------------------------------------------------------------------------
(* The legacy-key pass against the user pass *)

\* the user pass given the one template of the legacy pass (nothing before the
\* key, a closing quote after it) and the legacy keys only
LegacyAsUserPass ==
    UsersLoop(<< <<>> >>,
              KeysInText(SheetKeysFrom(wb.users, IsJiraUserKey, 1), TextBefore("jirausers")),
              [data |-> TextBefore("jirausers"), led |-> <<>>, raised |-> FALSE])

\* C16: the legacy-key pass leaves the text and the ledger rows that the user
\* pass would leave, given the single template (the key followed by a closing
\* quote) and the keys of the legacy shape only.
C16_SameAsUserPass ==
    HasRun("jirausers") =>
        /\ TextAfter("jirausers") = LegacyAsUserPass.data
        /\ RowsOf("jirausers") = LegacyAsUserPass.led

-----------------------------------------------------------------------------
(* The occurrences the custom-field pass cannot resolve *)

\* the offsets of customfield_ in the text the pass reads, and the identifier
\* (the prefix and the five characters after it) that stands at the k-th
CfOffsets == FindAll(TextBefore("customFields"), <<CFP>>)
CfIdAt(k) == Slice(TextBefore("customFields"), CfOffsets[k], CfOffsets[k] + SuffixLen)
CfNameAt(k) == getCustomFieldNameInExcel(CfIdAt(k))
CfRowsFor(id) == {i \in 1..Len(RowsOf("customFields")) : RowsOf("customFields")[i].server_id = id}

\* C17: once replaceCustomFields has run, an occurrence whose identifier has
\* no name in the store has no ledger row and stands in the text as before;
\* an occurrence whose name is in the store and has no cloud id has a ledger
\* row with a null cloud id and stands in the text as before.
C17_UnresolvedOccurrences ==
    HasRun("customFields") =>
        \A k \in 1..Len(CfOffsets) :
            /\ ~Truthy(CfNameAt(k)) =>
                  /\ CfRowsFor(CfIdAt(k)) = {}
                  /\ Occurrences(TextAfter("customFields"), CfIdAt(k))
                        >= Occurrences(TextBefore("customFields"), CfIdAt(k))
            /\ (Truthy(CfNameAt(k)) /\ Resolve("customfield", CfNameAt(k)) = None) =>
                  /\ InSeq(Entry("customfield", CfNameAt(k), CfIdAt(k), None),
                           RowsOf("customFields"))
                  /\ Occurrences(TextAfter("customFields"), CfIdAt(k))
                        >= Occurrences(TextBefore("customFields"), CfIdAt(k))

-----------------------------------------------------------------------------
(* The ledger rows of the set-membership pass *)

RECURSIVE Flatten(_)
Flatten(seqs) == IF seqs = <<>> THEN <<>> ELSE Head(seqs) \o Flatten(Tail(seqs))

\* the text of the pass of a kind once its ONE_OF conditions are done
TextMidOneOf(kind) ==
    OneOfPatterns(kind, <<"ONE_OF">>,
                  [data |-> TextBefore(OneOfStep(kind)), led |-> <<>>, raised |-> FALSE]).data
\* the ids the pass of a kind decodes, in the order it meets them
DecodedIds(kind) ==
    Flatten(ArraysOf(TextBefore(OneOfStep(kind)), kind, "ONE_OF"))
       \o Flatten(ArraysOf(TextMidOneOf(kind), kind, "NOT_ONE_OF"))
NameOfId(kind, id) == getNameInExcel(kind, Strip(id))
CloudIdOfId(kind, id) ==
    IF Truthy(NameOfId(kind, id)) THEN Resolve(kind, NameOfId(kind, id)) ELSE None
\* the decoded ids for which a name or a cloud id was found
KnownIds(kind) ==
    SelectSeq(DecodedIds(kind),
              LAMBDA id : Strip(id) # <<>>
                          /\ (Truthy(NameOfId(kind, id)) \/ Truthy(CloudIdOfId(kind, id))))

\* C18: once replaceOneOfCondition has run for a kind, its ledger rows are, in
\* order, one row for each decoded id for which a name or a cloud id was
\* found and none for any other id; the row holds the kind, the name, the id
\* as server id, and the cloud id resolved or null.
C18_OneOfLedger ==
    \A kind \in OneOfKinds : HasRun(OneOfStep(kind)) =>
        RowsOf(OneOfStep(kind))
           = [i \in 1..Len(KnownIds(kind)) |->
                 Entry(kind, NameOfId(kind, KnownIds(kind)[i]), Strip(KnownIds(kind)[i]),
                       CloudIdOfId(kind, KnownIds(kind)[i]))]

\* the status pass has decoded an id without a name, an id whose name has a
\* cloud id and an id whose name has none, and ledgered the last with null
C18_Witness ==
    /\ HasRun("oneOfStatus")
    /\ \E i \in 1..Len(DecodedIds("status")) : ~Truthy(NameOfId("status", DecodedIds("status")[i]))
    /\ \E i \in 1..Len(DecodedIds("status")) : Truthy(CloudIdOfId("status", DecodedIds("status")[i]))
    /\ \E i \in 1..Len(RowsOf("oneOfStatus")) : RowsOf("oneOfStatus")[i].cloud_id = None

-----------------------------------------------------------------------------
(* The fixed-field pass *)

\* the text with the by-ID references to one id rewritten by name, the id
\* being the whole identifier of the reference (the closing quote follows it)
RewriteWholeId(cf_id, data) ==
    LET name == getCustomFieldNameInExcel(<<CFP>> \o cf_id)
    IN  IF Truthy(name)
        THEN Replace(data, <<TID, VAL, CFP>> \o cf_id \o <<Q>>, <<TNAME, VAL>> \o name \o <<Q>>)
        ELSE data
RECURSIVE RewriteWholeIds(_, _)
RewriteWholeIds(cfs, data) ==
    IF cfs = <<>> THEN data ELSE RewriteWholeIds(Tail(cfs), RewriteWholeId(Head(cfs), data))

\* C19: once replaceFixedFields has run, the text is the text it read with
\* every by-ID reference whose whole custom-field id is the server id of a
\* store record with a name rewritten to the by-NAME reference with that name,
\* every 'Customer Request Type' replaced by 'Request Type', and nothing else
\* changed.
C19_FixedFieldsWholeId ==
    HasRun("fixedFields") =>
        TextAfter("fixedFields")
           = Replace(RewriteWholeIds(SheetKeysFrom(wb.customFields, NonBlank, 1),
                                     TextBefore("fixedFields")),
                     <<CRT>>, <<"Request Type">>)

-----------------------------------------------------------------------------
(* Blank cells in the sheets of the status, priority, issue-type and       *)
(* project passes                                                          *)

\* the rows below the header whose id cell is empty or blank
BlankIdRows(kind) == {r \in 2..Len(SheetOf(kind)) : ~NonBlank(CellA(SheetOf(kind), r))}

\* C20: once the status, priority, issue-type or project pass has run, every
\* row of its sheet that holds an id and a name has been processed once (it
\* has its ledger row), wherever blank rows lie in the sheet, and no row
\* whose id cell is blank has been processed (none has a ledger row).
C20_BlankRowsSkipped ==
    \A kind \in SheetKinds : HasRun(kind) =>
        /\ \A r \in DataRows(kind) :
              Cardinality(RowsFor(kind, IdOfRow(kind, r), NameOfRow(kind, r)))
                 = Cardinality(RecordsLike(kind, r))
        /\ \A r \in BlankIdRows(kind) : \A i \in 1..Len(RowsOf(kind)) :
              RowsOf(kind)[i].server_id # Strip(StrOf(CellA(SheetOf(kind), r)))

-----------------------------------------------------------------------------
(* The ledger over the run *)

IsPrefix(s, t) == Len(s) <= Len(t) /\ SubSeq(t, 1, Len(s)) = s

\* C21: every step of the run leaves the ledger as it was or appends rows at
\* its end: the ledger before a step is a prefix of the ledger after it, so
\* no row is changed, removed or merged with an equal row of another pass.
C21_LedgerAppendOnly == [][IsPrefix(mapping_data, mapping_data')]_vars

\* the run is over and the ledger holds the same row twice, once from the
\* status pass and once from the set-membership pass for statuses
C21_Witness ==
    /\ pc = "done"
    /\ \E i \in 1..Len(RowsOf("status")) : InSeq(RowsOf("status")[i], RowsOf("oneOfStatus"))

-----------------------------------------------------------------------------
(* The order of the passes *)

\* the passes in the order the run is to start them
PassOrder ==
    <<"removeDisabled", "fixedFields", "customFields", "status", "priority", "issuetype",
      "project", "users", "jirausers", "oneOfStatus", "oneOfIssueType", "oneOfPriority",
      "formatJSON", "split", "report">>
PassSet == {PassOrder[i] : i \in 1..Len(PassOrder)}
PlaceOf(step) == CHOOSE i \in 1..Len(PassOrder) : PassOrder[i] = step
\* the passes that rewrite the working text
TextPasses == {PassOrder[i] : i \in 1..12}

\* a pass starts: the first one after the checks and the confirmation, every
\* other one when the pass before it has finished, the split only if asked for
\* and the report also straight after the pretty-print when it was not
StartsInOrder ==
    (pc' # pc /\ pc' \in PassSet) =>
        \/ /\ pc' = "removeDisabled"
           /\ pc = "selected" /\ answers'.proceed /\ initial_checks(env)
        \/ /\ pc' # "removeDisabled"
           /\ pc = PassOrder[PlaceOf(pc') - 1]
           /\ pc' = "split" => answers.split_files
        \/ pc' = "report" /\ pc = "formatJSON" /\ ~answers.split_files

\* the report is written after every pass has run
ReportAfterAll ==
    "report" \in files.written =>
        /\ \A step \in TextPasses : HasRun(step)
        /\ "pretty" \in files.written
        /\ answers.split_files => Len(files.split) = Len(splitRules(files.working))

\* C22 as the specification states it: the passes start in the fixed order,
\* each after the one before it has finished, the report is generated after
\* every pass has run, and it holds a row for every ledger record of the run.
C22_OrderAndWholeLedger ==
    /\ [][StartsInOrder]_vars
    /\ [](ReportAfterAll
          /\ ("report" \in files.written =>
                 /\ Len(files.report) = Len(mapping_data)
                 /\ \A i \in 1..Len(mapping_data) :
                       /\ files.report[i].type = mapping_data[i].type
                       /\ files.report[i].name = mapping_data[i].name
                       /\ files.report[i].server_id = mapping_data[i].server_id))

\* C22, amended: the same order, and the report, generated after every pass
\* has run, holds in the order of the ledger a row for every ledger record of
\* the run but those whose server id and name are both absent.
C22_OrderAndKeptLedger ==
    /\ [][StartsInOrder]_vars
    /\ [](ReportAfterAll
          /\ ("report" \in files.written =>
                 /\ Len(files.report) = Len(Reported)
                 /\ \A i \in 1..Len(Reported) :
                       /\ files.report[i].type = Reported[i].type
                       /\ files.report[i].name = Reported[i].name
                       /\ files.report[i].server_id = Reported[i].server_id))

\* a run with the split asked for has ended; its ledger holds a record whose
\* server id and name are both absent, and the report has no row for it
C22_Witness ==
    /\ pc = "done"
    /\ answers.split_files
    /\ Len(Reported) < Len(mapping_data)
    /\ Len(files.report) = Len(Reported)

-----------------------------------------------------------------------------
(* Text that a substitution wrote *)

\* the ids a place that held the id of the record r may hold once it has been
\* rewritten at most once: the id itself, or the cloud id resolved for a
\* record of the kind with that id
OnceRewritten(kind, r) ==
    {IdOfRow(kind, r)} \cup
    {Resolve(kind, NameOfRow(kind, q)) :
        q \in {x \in DataRows(kind) : /\ IdOfRow(kind, x) = IdOfRow(kind, r)
                                      /\ Resolves(kind, NameOfRow(kind, x))}}

\* C23: at the end of the run every place where a template of the status,
\* priority, issue-type or project pass was followed by the server id of a
\* record holds that id still or the cloud id resolved for a record with that
\* id: what a substitution wrote is not rewritten again, also when the cloud
\* id written equals the server id of another record of the kind.
C23_RewrittenAtMostOnce ==
    pc = "done" =>
        \A kind \in SheetKinds : \A r \in DataRows(kind) : \A t \in TemplateSet(kind) :
            \A k \in Slots(TextBefore(kind), t, IdOfRow(kind, r)) :
                \E id \in OnceRewritten(kind, r) : k \in Slots(files.working, t, id)

-----------------------------------------------------------------------------
(* The arrays of the other kinds *)

\* C24: once replaceOneOfCondition has run for a kind, the encoded array of
\* every ONE_OF or NOT_ONE_OF condition of another kind is as it was before
\* the call, also when it held the same ids as an array of the kind.
C24_OtherKindsUntouched ==
    \A kind \in OneOfKinds : HasRun(OneOfStep(kind)) =>
        \A other \in OneOfKinds \ {kind} : \A cmp \in {"ONE_OF", "NOT_ONE_OF"} :
            ArraysOf(TextAfter(OneOfStep(kind)), other, cmp)
               = ArraysOf(TextBefore(OneOfStep(kind)), other, cmp)

====
